---- MODULE Spec2Model ----
(***************************************************************************)
(* A model of the FalconX REST client (falconx/client.py): the client      *)
(* FalconxClient with its sixteen endpoint methods, the request signer     *)
(* FXRfqAuth and the response normaliser _process_response.                *)
(*                                                                         *)
(* Python values are tagged records [t |-> <type>, v |-> <value>]. A str   *)
(* is a sequence of one-character strings, bytes a sequence of integers    *)
(* 0..255; str.encode()/bytes.decode() convert between the two.            *)
(***************************************************************************)
EXTENDS Integers, Sequences, FiniteSets, TLC

(* ---------------------------------------------------------------- text *)

\* The printable ASCII characters, code 32 first (the backslash and the
\* backquote, which no text of the model holds, are written out by name).
Ascii ==
  <<" ","!","\"","#","$","%","&","'","(",")","*","+",",","-",".","/","0","1","2","3","4","5","6","7","8","9",":",";","<","=",">","?","@","A","B","C","D","E","F","G","H","I","J","K","L","M","N","O","P","Q","R","S","T","U","V","W","X","Y","Z","[","<backslash>","]","^","_","<backquote>","a","b","c","d","e","f","g","h","i","j","k","l","m","n","o","p","q","r","s","t","u","v","w","x","y","z","{","|","}","~">>

Chars == {Ascii[i] : i \in 1..Len(Ascii)}

OrdTable == [c \in Chars |-> 31 + (CHOOSE i \in 1..Len(Ascii) : Ascii[i] = c)]

Ord(c) == OrdTable[c]

Chr(b) == Ascii[b - 31]

\* str.encode(): the UTF-8 bytes of an ASCII string.
Encode(s) == [i \in 1..Len(s) |-> Ord(s[i])]

\* bytes.decode()
Decode(b) == [i \in 1..Len(b) |-> Chr(b[i])]

Digits == <<"0","1","2","3","4","5","6","7","8","9">>

RECURSIVE IntStr(_)
\* str(n) of a non-negative int
IntStr(n) ==
  IF n < 10 THEN <<Digits[n + 1]>> ELSE IntStr(n \div 10) \o <<Digits[(n % 10) + 1]>>

(* ------------------------------------------------------- Python values *)

PyNone == [t |-> "None"]
PyStr(s) == [t |-> "str", v |-> s]
PyInt(n) == [t |-> "int", v |-> n]
PyBytes(b) == [t |-> "bytes", v |-> b]
\* A dict keeps insertion order: a sequence of <<key, value>> pairs.
PyDict(items) == [t |-> "dict", v |-> items]
PyList(items) == [t |-> "list", v |-> items]
PyBool(b) == [t |-> "bool", v |-> b]

\* bool(x)
Truthy(x) ==
  CASE x.t = "None" -> FALSE
    [] x.t = "str" -> x.v # <<>>
    [] x.t = "bytes" -> x.v # <<>>
    [] x.t = "int" -> x.v # 0
    [] x.t = "bool" -> x.v
    [] x.t = "dict" -> x.v # <<>>
    [] x.t = "list" -> x.v # <<>>
    [] OTHER -> TRUE

\* str(x), client.py:87 and :153
PyToStr(x) ==
  CASE x.t = "int" -> PyStr(IntStr(x.v))
    [] x.t = "str" -> x
    [] OTHER -> PyStr(<<"N","o","n","e">>)

(* -------------------------------------------------------------- base64 *)

B64Alphabet ==
  <<"A","B","C","D","E","F","G","H","I","J","K","L","M","N","O","P","Q","R","S","T","U","V","W","X","Y","Z","a","b","c","d","e","f","g","h","i","j","k","l","m","n","o","p","q","r","s","t","u","v","w","x","y","z","0","1","2","3","4","5","6","7","8","9","+","/">>

B64Chars == {B64Alphabet[i] : i \in 1..Len(B64Alphabet)}

B64Index == [c \in B64Chars |-> (CHOOSE i \in 1..Len(B64Alphabet) : B64Alphabet[i] = c) - 1]

B64Sym(n) == Ord(B64Alphabet[n + 1])

B64Pad == Ord("=")

RECURSIVE B64EncodeBytes(_)
\* base64.b64encode(b): three bytes to four symbols, '=' padding at the end.
B64EncodeBytes(b) ==
  IF Len(b) = 0 THEN <<>>
  ELSE IF Len(b) = 1 THEN
    <<B64Sym(b[1] \div 4), B64Sym((b[1] % 4) * 16), B64Pad, B64Pad>>
  ELSE IF Len(b) = 2 THEN
    <<B64Sym(b[1] \div 4), B64Sym((b[1] % 4) * 16 + b[2] \div 16),
      B64Sym((b[2] % 16) * 4), B64Pad>>
  ELSE
    <<B64Sym(b[1] \div 4), B64Sym((b[1] % 4) * 16 + b[2] \div 16),
      B64Sym((b[2] % 16) * 4 + b[3] \div 64), B64Sym(b[3] % 64)>>
    \o B64EncodeBytes(SubSeq(b, 4, Len(b)))

RECURSIVE A2bBase64(_, _, _, _, _)
\* binascii.a2b_base64 (not strict) over the characters s: characters outside
\* the alphabet are skipped, a completed pad sequence ends the input, and an
\* incomplete quad at the end is an error.
\* quad: symbols of the open quad; pads: '=' seen in a row; left: pending bits.
A2bBase64(s, quad, pads, left, out) ==
  IF s = <<>> THEN [ok |-> quad = 0, bytes |-> out]
  ELSE LET c == Head(s) IN
    IF c = "=" THEN
      IF quad >= 2 /\ quad + pads + 1 >= 4
        THEN [ok |-> TRUE, bytes |-> out]
        ELSE A2bBase64(Tail(s), quad, pads + 1, left, out)
    ELSE IF c \notin B64Chars THEN A2bBase64(Tail(s), quad, pads, left, out)
    ELSE LET n == B64Index[c] IN
      CASE quad = 0 -> A2bBase64(Tail(s), 1, 0, n, out)
        [] quad = 1 ->
             A2bBase64(Tail(s), 2, 0, n % 16, Append(out, left * 4 + n \div 16))
        [] quad = 2 ->
             A2bBase64(Tail(s), 3, 0, n % 4, Append(out, left * 16 + n \div 4))
        [] OTHER ->
             A2bBase64(Tail(s), 0, 0, 0, Append(out, left * 64 + n))

\* A decoder that never fails: it hands back the bytes of the complete quads.
B64DecodeLenient(x) ==
  [ok |-> TRUE,
   bytes |-> A2bBase64(IF x.t = "bytes" THEN Decode(x.v) ELSE x.v, 0, 0, 0, <<>>).bytes]

\* base64.b64decode(s) of a str or bytes value: [ok, bytes]; ok = FALSE is
\* binascii.Error.
B64Decode(x) ==
  A2bBase64(IF x.t = "bytes" THEN Decode(x.v) ELSE x.v, 0, 0, 0, <<>>)

(* ---------------------------------------------------------------- HMAC *)

RECURSIVE AbsorbRange(_, _, _, _)
\* The bytes b[lo..hi] taken into the 24-bit state h, one byte at a time
\* (h >= 0 always: the test only makes the evaluation of h eager).
AbsorbRange(h, b, lo, hi) ==
  IF lo > hi \/ h < 0 THEN h
  ELSE AbsorbRange((h * 31 + b[lo] + 1) % 16777216, b, lo + 1, hi)

RECURSIVE AbsorbBlocks(_, _, _)
\* The bytes b[lo..] taken into h in blocks of sixteen.
AbsorbBlocks(h, b, lo) ==
  IF lo > Len(b) \/ h < 0 THEN h
  ELSE AbsorbBlocks(AbsorbRange(h, b, lo, IF lo + 15 < Len(b) THEN lo + 15 ELSE Len(b)),
                    b, lo + 16)

\* The digest of a byte string. It stands for SHA-256: deterministic, and
\* sensitive to every byte, to their order and to the length.
Sha(b) ==
  LET h == AbsorbBlocks(7 + Len(b), b, 1) IN
  <<h \div 65536, (h \div 256) % 256, h % 256>>

KeyPad(key, pad) == [i \in 1..Len(key) |-> (key[i] + pad) % 256]

\* hmac.new(key, msg, hashlib.sha256).digest(): H((key ^ opad) || H((key ^ ipad) || msg))
HmacDigest(key, msg) ==
  Sha(KeyPad(key, 92) \o <<92>> \o Sha(KeyPad(key, 54) \o <<54>> \o msg))

(* ---------------------------------------------------------------- JSON *)

RECURSIVE JsonDumps(_)
RECURSIVE JsonDumpsItems(_, _)
\* json.dumps(x) with the default separators (', ' and ': '), as
\* session.post(..., json=params) serialises the body. Strings of the model
\* hold no character that needs escaping.
JsonDumps(x) ==
  CASE x.t = "None" -> <<"n","u","l","l">>
    [] x.t = "bool" -> IF x.v THEN <<"t","r","u","e">> ELSE <<"f","a","l","s","e">>
    [] x.t = "int" -> IntStr(x.v)
    [] x.t = "str" -> <<"\"">> \o x.v \o <<"\"">>
    [] x.t = "list" -> <<"[">> \o JsonDumpsItems(x.v, FALSE) \o <<"]">>
    [] OTHER -> <<"{">> \o JsonDumpsItems(x.v, TRUE) \o <<"}">>

JsonDumpsItems(items, keyed) ==
  IF items = <<>> THEN <<>>
  ELSE (IF keyed
          THEN <<"\"">> \o Head(items)[1] \o <<"\"", ":", " ">> \o JsonDumps(Head(items)[2])
          ELSE JsonDumps(Head(items)))
       \o (IF Len(items) > 1 THEN <<",", " ">> ELSE <<>>)
       \o JsonDumpsItems(Tail(items), keyed)

JsonFail == [ok |-> FALSE, val |-> PyNone, rest |-> <<>>]

JsonOk(val, rest) == [ok |-> TRUE, val |-> val, rest |-> rest]

RECURSIVE SkipWs(_)
SkipWs(s) == IF s # <<>> /\ Head(s) = " " THEN SkipWs(Tail(s)) ELSE s

IsPrefix(p, s) == Len(p) <= Len(s) /\ SubSeq(s, 1, Len(p)) = p

DigitSet == {Digits[i] : i \in 1..Len(Digits)}

DigitVal(c) == Ord(c) - 48

RECURSIVE ParseDigits(_, _)
ParseDigits(s, n) ==
  IF s # <<>> /\ Head(s) \in DigitSet
    THEN ParseDigits(Tail(s), 10 * n + DigitVal(Head(s)))
    ELSE JsonOk(PyInt(n), s)

RECURSIVE ParseChars(_, _)
\* The characters of a string literal up to its closing quote.
ParseChars(s, acc) ==
  IF s = <<>> THEN JsonFail
  ELSE IF Head(s) = "\"" THEN JsonOk(PyStr(acc), Tail(s))
  ELSE ParseChars(Tail(s), Append(acc, Head(s)))

RECURSIVE ParseValue(_)
RECURSIVE ParseElements(_, _)
RECURSIVE ParseMembers(_, _)
\* One JSON value at the head of s (after blanks): [ok, val, rest]. Numbers
\* are the non-negative integers, strings hold no escape.
ParseValue(s0) ==
  LET s == SkipWs(s0) IN
  IF s = <<>> THEN JsonFail
  ELSE IF Head(s) = "\"" THEN ParseChars(Tail(s), <<>>)
  ELSE IF Head(s) \in DigitSet THEN
    IF Head(s) = "0" /\ Len(s) > 1 /\ s[2] \in DigitSet
      THEN JsonOk(PyInt(0), Tail(s))
      ELSE ParseDigits(s, 0)
  ELSE IF IsPrefix(<<"n","u","l","l">>, s) THEN JsonOk(PyNone, SubSeq(s, 5, Len(s)))
  ELSE IF IsPrefix(<<"t","r","u","e">>, s) THEN JsonOk(PyBool(TRUE), SubSeq(s, 5, Len(s)))
  ELSE IF IsPrefix(<<"f","a","l","s","e">>, s) THEN JsonOk(PyBool(FALSE), SubSeq(s, 6, Len(s)))
  ELSE IF Head(s) = "[" THEN
    LET r == SkipWs(Tail(s)) IN
    IF r # <<>> /\ Head(r) = "]" THEN JsonOk(PyList(<<>>), Tail(r))
    ELSE ParseElements(r, <<>>)
  ELSE IF Head(s) = "{" THEN
    LET r == SkipWs(Tail(s)) IN
    IF r # <<>> /\ Head(r) = "}" THEN JsonOk(PyDict(<<>>), Tail(r))
    ELSE ParseMembers(r, <<>>)
  ELSE JsonFail

ParseElements(s, acc) ==
  LET e == ParseValue(s) IN
  IF ~e.ok THEN JsonFail
  ELSE LET r == SkipWs(e.rest) IN
    IF r = <<>> THEN JsonFail
    ELSE IF Head(r) = "]" THEN JsonOk(PyList(Append(acc, e.val)), Tail(r))
    ELSE IF Head(r) = "," THEN ParseElements(Tail(r), Append(acc, e.val))
    ELSE JsonFail

ParseMembers(s0, acc) ==
  LET s == SkipWs(s0) IN
  IF s = <<>> \/ Head(s) # "\"" THEN JsonFail
  ELSE LET k == ParseChars(Tail(s), <<>>) IN
    IF ~k.ok THEN JsonFail
    ELSE LET c == SkipWs(k.rest) IN
      IF c = <<>> \/ Head(c) # ":" THEN JsonFail
      ELSE LET e == ParseValue(Tail(c)) IN
        IF ~e.ok THEN JsonFail
        ELSE LET r == SkipWs(e.rest)
                 more == Append(acc, <<k.val.v, e.val>>) IN
          IF r = <<>> THEN JsonFail
          ELSE IF Head(r) = "}" THEN JsonOk(PyDict(more), Tail(r))
          ELSE IF Head(r) = "," THEN ParseMembers(Tail(r), more)
          ELSE JsonFail

\* response.json(): [ok, val]; ok = FALSE is the JSONDecodeError it raises
\* when the body is not one JSON document.
JsonLoads(text) ==
  LET r == ParseValue(text) IN
  IF r.ok /\ SkipWs(r.rest) = <<>> THEN [ok |-> TRUE, val |-> r.val]
  ELSE [ok |-> FALSE, val |-> PyNone]

(* ----------------------------------------------------------------- URL *)

HexDigits == <<"0","1","2","3","4","5","6","7","8","9","A","B","C","D","E","F">>

Unreserved ==
  {Ascii[i] : i \in 17..26} \cup {Ascii[i] : i \in 34..59} \cup {Ascii[i] : i \in 66..91}
    \cup {"_", ".", "-", "~"}

RECURSIVE QuotePlus(_)
\* urllib.parse.quote_plus, which urlencode applies to every key and value.
QuotePlus(s) ==
  IF s = <<>> THEN <<>>
  ELSE (IF Head(s) \in Unreserved THEN <<Head(s)>>
        ELSE IF Head(s) = " " THEN <<"+">>
        ELSE <<"%", HexDigits[(Ord(Head(s)) \div 16) + 1], HexDigits[(Ord(Head(s)) % 16) + 1]>>)
       \o QuotePlus(Tail(s))

RECURSIVE EncodeParams(_)
\* requests' _encode_params over the params dict: a None value is dropped,
\* the others become key=value joined by '&'.
EncodeParams(items) ==
  IF items = <<>> THEN <<>>
  ELSE LET rest == EncodeParams(Tail(items)) IN
    IF Head(items)[2].t = "None" THEN rest
    ELSE QuotePlus(Head(items)[1]) \o <<"=">> \o QuotePlus(PyToStr(Head(items)[2]).v)
         \o (IF rest = <<>> THEN <<>> ELSE <<"&">> \o rest)

\* The index of the first character of the path in scheme://host/path.
PathStart(url) ==
  LET slashes == {i \in 1..Len(url) : url[i] = "/"}
      after == {i \in slashes : Cardinality({j \in slashes : j < i}) >= 2} IN
  IF after = {} THEN Len(url) + 1
  ELSE CHOOSE i \in after : \A j \in after : i <= j

\* PreparedRequest.path_url: the path (or '/') and, after '?', the query.
PathUrl(url, query) ==
  LET path == SubSeq(url, PathStart(url), Len(url)) IN
  (IF path = <<>> THEN <<"/">> ELSE path)
    \o (IF query = <<>> THEN <<>> ELSE <<"?">> \o query)

(* ------------------------------------------------------------ literals *)

\* The default base URL, 'https://api.falconx.io/v1/'.
DefaultUrl == <<"h","t","t","p","s",":","/","/","a","p","i",".","f","a","l","c","o","n","x",".","i","o","/","v","1","/">>

\* HTTP methods, endpoint paths and the Content-Type value.
s_GET == <<"G","E","T">>
s_POST == <<"P","O","S","T">>
s_pairs == <<"p","a","i","r","s">>
s_quotes == <<"q","u","o","t","e","s">>
s_order == <<"o","r","d","e","r">>
s_quotes_execute == <<"q","u","o","t","e","s","/","e","x","e","c","u","t","e">>
s_quotes_fmt == <<"q","u","o","t","e","s","/">>
s_balances == <<"b","a","l","a","n","c","e","s">>
s_balances_total == <<"b","a","l","a","n","c","e","s","/","t","o","t","a","l">>
s_transfers == <<"t","r","a","n","s","f","e","r","s">>
s_get_trade_volume == <<"g","e","t","_","t","r","a","d","e","_","v","o","l","u","m","e">>
s_get_30_day_trailing_volume == <<"g","e","t","_","3","0","_","d","a","y","_","t","r","a","i","l","i","n","g","_","v","o","l","u","m","e">>
s_get_trade_limits_fmt == <<"g","e","t","_","t","r","a","d","e","_","l","i","m","i","t","s","/">>
s_withdraw == <<"w","i","t","h","d","r","a","w">>
s_rate_limit == <<"r","a","t","e","_","l","i","m","i","t">>
s_trade_sizes == <<"t","r","a","d","e","_","s","i","z","e","s">>
s_derivatives == <<"d","e","r","i","v","a","t","i","v","e","s">>
s_application_json == <<"a","p","p","l","i","c","a","t","i","o","n","/","j","s","o","n">>

\* Keys of the parameter and result dicts.
k_token_pair == <<"t","o","k","e","n","_","p","a","i","r">>
k_base_token == <<"b","a","s","e","_","t","o","k","e","n">>
k_quote_token == <<"q","u","o","t","e","_","t","o","k","e","n">>
k_quantity == <<"q","u","a","n","t","i","t","y">>
k_token == <<"t","o","k","e","n">>
k_value == <<"v","a","l","u","e">>
k_side == <<"s","i","d","e">>
k_client_order_id == <<"c","l","i","e","n","t","_","o","r","d","e","r","_","i","d">>
k_order_type == <<"o","r","d","e","r","_","t","y","p","e">>
k_time_in_force == <<"t","i","m","e","_","i","n","_","f","o","r","c","e">>
k_limit_price == <<"l","i","m","i","t","_","p","r","i","c","e">>
k_slippage_bps == <<"s","l","i","p","p","a","g","e","_","b","p","s">>
k_fx_quote_id == <<"f","x","_","q","u","o","t","e","_","i","d">>
k_t_start == <<"t","_","s","t","a","r","t">>
k_t_end == <<"t","_","e","n","d">>
k_platform == <<"p","l","a","t","f","o","r","m">>
k_amount == <<"a","m","o","u","n","t">>
k_trade_status == <<"t","r","a","d","e","_","s","t","a","t","u","s">>
k_product_type == <<"p","r","o","d","u","c","t","_","t","y","p","e">>
k_market_list == <<"m","a","r","k","e","t","_","l","i","s","t">>
k_status == <<"s","t","a","t","u","s">>
k_text == <<"t","e","x","t">>

Http200 == 200

(* -------------------------------------------------------------- bounds *)

\* Operation calls made on one client.
MaxCalls == 2

\* The clock (time.time(), in tenths of a second) runs from 0 to MaxClock.
MaxClock == 1

\* Quantities and amounts run from 9 to MaxQuantity (one and two digits).
MaxQuantity == 10

(* --------------------------------------------------------------- inputs *)

Keys == {PyNone, PyStr(<<>>), PyStr(<<"K","1">>)}

\* 'a2V5' is base64 of 'key'; 'YQ=' has incorrect padding and 'a2V5a' one
\* data character too many.
Secrets ==
  {PyNone, PyStr(<<>>), PyStr(<<"a","2","V","5">>), PyStr(<<"Y","Q","=">>),
   PyStr(<<"a","2","V","5","a">>)}

Passphrases == {PyNone, PyStr(<<>>), PyStr(<<"p","w">>)}

Urls == {DefaultUrl, <<"h","t","t","p",":","/","/","h","/">>}

Tokens == {PyStr(<<"B","T","C">>), PyStr(<<"U","S","D">>)}

Quantities == {PyInt(n) : n \in 9..MaxQuantity}

Sides == {PyStr(<<"b","u","y">>), PyStr(<<"t","w","o","_","w","a","y">>)}

OrderTypes == {PyStr(<<"m","a","r","k","e","t">>), PyStr(<<"l","i","m","i","t">>)}

QuoteIds == {PyStr(<<"q","1">>)}

Platforms == {PyNone, PyStr(<<"a","p","i">>)}

Times == {PyNone, PyStr(<<"0","9",":","3","0">>)}

Statuses == {Http200, 201, 404}

\* Response bodies: a JSON object, a JSON string, text that is no JSON, nothing.
Texts ==
  { <<"{","\"","s","t","a","t","u","s","\"",":","\"","s","u","c","c","e","s","s","\"",",","\"","f","x","_","q","u","o","t","e","_","i","d","\"",":","\"","a","b","c","\"","}">>,
    <<"\"","n","o","t"," ","f","o","u","n","d","\"">>,
    <<"n","o","t"," ","f","o","u","n","d">>,
    <<>> }

(* ---------------------------------------------------------------- state *)

VARIABLES
  constructed,  \* "no", "ok" (the constructor returned), "raised"
  url,          \* FalconxClient.url
  auth,         \* FalconxClient.auth: an FXRfqAuth object, or None
  session,      \* FalconxClient.session: None before requests.Session()
  now,          \* the wall clock, in tenths of a second
  calls,        \* operations called so far
  pc,           \* "idle", "prepare" (request built, auth hooks pending or run),
                \* "sent", "responded", "done"
  call,         \* the operation in progress: [name, args, checked]
  req,          \* the prepared request of the call
  pending,      \* auth hooks still to run on req
  signLog,      \* the signer's invocations for this call
  wire,         \* the requests of this call put on the network
  resp,         \* the responses received for this call
  outcome       \* what the call delivered to its caller: returns and raises

vars ==
  <<constructed, url, auth, session, now, calls, pc, call, req, pending,
    signLog, wire, resp, outcome>>

NoHeaders == [h \in {} |-> PyNone]

NoCall == [name |-> "", args |-> <<>>, checked |-> FALSE]

NoReq ==
  [method |-> <<>>, url |-> <<>>, query |-> <<>>, path_url |-> <<>>,
   json |-> PyNone, body |-> PyNone, headers |-> NoHeaders]

Init ==
  /\ constructed = "no"
  /\ url = <<>>
  /\ auth = PyNone
  /\ session = PyNone
  /\ now = 0
  /\ calls = 0
  /\ pc = "idle"
  /\ call = NoCall
  /\ req = NoReq
  /\ pending = <<>>
  /\ signLog = <<>>
  /\ wire = <<>>
  /\ resp = <<>>
  /\ outcome = <<>>

(* ------------------------------------------------------------ FXRfqAuth *)

\* FXRfqAuth.__init__
FXRfqAuth(api_key, secret_key, passphrase) ==
  [t |-> "FXRfqAuth", api_key |-> api_key, secret_key |-> secret_key,
   passphrase |-> passphrase]

\* str(time.time()): seconds with the fraction, '1.2'
TimeStr(n) == IntStr(n \div 10) \o <<".">> \o IntStr(n % 10)

\* request.body.decode() if request.body else ''
RequestBody(body) == IF Truthy(body) THEN Decode(body.v) ELSE <<>>

\* A signer that puts the path before the method.
SigningMessagePathFirst(timestamp, method, path_url, request_body) ==
  timestamp \o path_url \o method \o request_body

\* message = timestamp + request.method + request.path_url + request_body
SigningMessage(timestamp, method, path_url, request_body) ==
  timestamp \o method \o path_url \o request_body

\* signature_b64 = base64.b64encode(hmac.new(hmac_key, message.encode(), sha256).digest())
Signature(hmac_key, message) ==
  PyBytes(B64EncodeBytes(HmacDigest(hmac_key, Encode(message))))

\* A signer that swaps the key and the passphrase headers.
AuthHeadersSwapped(signature_b64, timestamp, a) ==
  [h \in {"FX-ACCESS-SIGN", "FX-ACCESS-TIMESTAMP", "FX-ACCESS-KEY",
          "FX-ACCESS-PASSPHRASE", "Content-Type"} |->
     CASE h = "FX-ACCESS-SIGN" -> signature_b64
       [] h = "FX-ACCESS-TIMESTAMP" -> PyStr(timestamp)
       [] h = "FX-ACCESS-KEY" -> a.passphrase
       [] h = "FX-ACCESS-PASSPHRASE" -> a.api_key
       [] OTHER -> PyStr(s_application_json)]

\* The dict given to request.headers.update
AuthHeaders(signature_b64, timestamp, a) ==
  [h \in {"FX-ACCESS-SIGN", "FX-ACCESS-TIMESTAMP", "FX-ACCESS-KEY",
          "FX-ACCESS-PASSPHRASE", "Content-Type"} |->
     CASE h = "FX-ACCESS-SIGN" -> signature_b64
       [] h = "FX-ACCESS-TIMESTAMP" -> PyStr(timestamp)
       [] h = "FX-ACCESS-KEY" -> a.api_key
       [] h = "FX-ACCESS-PASSPHRASE" -> a.passphrase
       [] OTHER -> PyStr(s_application_json)]

\* dict.update
Update(old, new) ==
  [h \in DOMAIN old \cup DOMAIN new |-> IF h \in DOMAIN new THEN new[h] ELSE old[h]]

\* An exception, by the name of its type or by its message.
Raised(exc) == [kind |-> "raise", value |-> [t |-> "exception", v |-> exc]]

Returned(v) == [kind |-> "return", value |-> v]

\* FXRfqAuth.__call__, run by requests while it prepares the request: the
\* hook at the head of pending signs req. A secret that is not base64 raises
\* binascii.Error out of the operation, before any header is set.
FXRfqAuth_call ==
  /\ pc = "prepare"
  /\ pending # <<>>
  /\ LET a == Head(pending)
         timestamp == TimeStr(now)
         request_body == RequestBody(req.body)
         message == SigningMessage(timestamp, req.method, req.path_url, request_body)
         hmac_key == B64Decode(a.secret_key)
     IN /\ signLog' = Append(signLog, [message |-> message, path_url |-> req.path_url,
                                       body |-> req.body, sent |-> Len(wire)])
        /\ IF hmac_key.ok
             THEN /\ req' = [req EXCEPT !.headers =
                               Update(@, AuthHeaders(Signature(hmac_key.bytes, message),
                                                     timestamp, a))]
                  /\ pending' = Tail(pending)
                  /\ UNCHANGED <<pc, outcome>>
             ELSE /\ pc' = "done"
                  /\ outcome' = Append(outcome, Raised("binascii.Error"))
                  /\ UNCHANGED <<req, pending>>
  /\ UNCHANGED <<constructed, url, auth, session, now, calls, call, wire, resp>>

(* -------------------------------------------------------- FalconxClient *)

\* A constructor that forgets to test the passphrase.
CredentialsGivenNoPassphrase(key, secret, passphrase) == Truthy(key) /\ Truthy(secret)

\* key and secret and passphrase
CredentialsGiven(key, secret, passphrase) ==
  Truthy(key) /\ Truthy(secret) /\ Truthy(passphrase)

\* FalconxClient.__init__
Construct(key, secret, passphrase, u) ==
  /\ constructed = "no"
  /\ url' = u
  /\ IF CredentialsGiven(key, secret, passphrase)
       THEN /\ auth' = FXRfqAuth(key, secret, passphrase)
            /\ session' = [t |-> "Session", auth |-> auth']
            /\ constructed' = "ok"
       ELSE /\ auth' = PyNone
            /\ session' = PyNone
            /\ constructed' = "raised"
  /\ UNCHANGED <<now, calls, pc, call, req, pending, signLog, wire, resp, outcome>>

\* A session that runs its own auth hook as well as the one given on the call.
MergeSettingBoth(request_auth, session_auth) ==
  (IF request_auth.t # "None" THEN <<request_auth>> ELSE <<>>)
    \o (IF session_auth.t # "None" THEN <<session_auth>> ELSE <<>>)

\* requests' merge_setting for the auth of a call: the call's own auth when
\* it gives one, the session's otherwise; the hooks to run, in order.
MergeSetting(request_auth, session_auth) ==
  IF request_auth.t # "None" THEN <<request_auth>>
  ELSE IF session_auth.t # "None" THEN <<session_auth>>
  ELSE <<>>

\* What a method hands to session.get / session.post.
Get(u, params) ==
  [method |-> s_GET, url |-> u, params |-> params, json |-> PyNone, auth |-> PyNone]

Post(u, params, json, callAuth) ==
  [method |-> s_POST, url |-> u, params |-> params, json |-> json, auth |-> callAuth]

\* Session.request up to the auth hooks: the URL with its query, the JSON
\* body with its Content-Type, and the hooks to run.
Prepare(r) ==
  LET query == IF r.params.t = "None" THEN <<>> ELSE EncodeParams(r.params.v)
      body == IF r.json.t = "None" THEN PyNone ELSE PyBytes(Encode(JsonDumps(r.json)))
  IN [method |-> r.method, url |-> r.url, query |-> query,
      path_url |-> PathUrl(r.url, query), json |-> r.json, body |-> body,
      headers |-> IF body.t = "None" THEN NoHeaders
                  ELSE [h \in {"Content-Type"} |-> PyStr(s_application_json)]]

\* A caller may start an operation on a constructed client that is not in one
\* (the calls are synchronous and made one after the other).
CanCall == constructed = "ok" /\ pc = "idle" /\ calls < MaxCalls

\* raise Exception("Authentication is required for this API call")
RaiseAuthRequired(name, args) ==
  /\ pc' = "done"
  /\ call' = [name |-> name, args |-> args, checked |-> TRUE]
  /\ outcome' = <<Raised("Authentication is required for this API call")>>
  /\ req' = NoReq
  /\ pending' = <<>>

\* The method builds its request and requests prepares it.
Issue(name, args, checked, r) ==
  /\ pc' = "prepare"
  /\ call' = [name |-> name, args |-> args, checked |-> checked]
  /\ outcome' = <<>>
  /\ req' = Prepare(r)
  /\ pending' = MergeSetting(r.auth, session.auth)

\* if not self.auth: raise ...; then the request
Checked(name, args, r) ==
  /\ CanCall
  /\ calls' = calls + 1
  /\ IF ~Truthy(auth) THEN RaiseAuthRequired(name, args) ELSE Issue(name, args, TRUE, r)
  /\ UNCHANGED <<constructed, url, auth, session, now, signLog, wire, resp>>

\* A method with no check of self.auth
Unchecked(name, args, r) ==
  /\ CanCall
  /\ calls' = calls + 1
  /\ Issue(name, args, FALSE, r)
  /\ UNCHANGED <<constructed, url, auth, session, now, signLog, wire, resp>>

(* ------------------------------------------------------------ endpoints *)

get_trading_pairs_request == Get(url \o s_pairs, PyNone)

get_trading_pairs == Unchecked("get_trading_pairs", <<>>, get_trading_pairs_request)

\* A get_quote that sends the quantity as a number.
get_quote_paramsRawQuantity(base, quote, quantity, side, client_order_id) ==
  PyDict(<<
    <<k_token_pair, PyDict(<< <<k_base_token, base>>, <<k_quote_token, quote>> >>)>>,
    <<k_quantity, PyDict(<< <<k_token, base>>, <<k_value, quantity>> >>)>>,
    <<k_side, side>>,
    <<k_client_order_id, client_order_id>> >>)

get_quote_params(base, quote, quantity, side, client_order_id) ==
  PyDict(<<
    <<k_token_pair, PyDict(<< <<k_base_token, base>>, <<k_quote_token, quote>> >>)>>,
    <<k_quantity, PyDict(<< <<k_token, base>>, <<k_value, PyToStr(quantity)>> >>)>>,
    <<k_side, side>>,
    <<k_client_order_id, client_order_id>> >>)

get_quote_request(base, quote, quantity, side, client_order_id) ==
  Post(url \o s_quotes, PyNone,
       get_quote_params(base, quote, quantity, side, client_order_id), PyNone)

get_quote(base, quote, quantity, side, client_order_id) ==
  Checked("get_quote", <<base, quote, quantity, side, client_order_id>>,
          get_quote_request(base, quote, quantity, side, client_order_id))

place_order_params(base, quote, quantity, side, order_type, time_in_force, limit_price, slippage_bps, client_order_id) ==
  PyDict(<<
    <<k_token_pair, PyDict(<< <<k_base_token, base>>, <<k_quote_token, quote>> >>)>>,
    <<k_quantity, PyDict(<< <<k_token, base>>, <<k_value, PyToStr(quantity)>> >>)>>,
    <<k_side, side>>,
    <<k_order_type, order_type>>,
    <<k_time_in_force, time_in_force>>,
    <<k_limit_price, limit_price>>,
    <<k_slippage_bps, slippage_bps>>,
    <<k_client_order_id, client_order_id>> >>)

place_order_request(base, quote, quantity, side, order_type, time_in_force, limit_price, slippage_bps, client_order_id) ==
  Post(url \o s_order, PyNone,
       place_order_params(base, quote, quantity, side, order_type, time_in_force,
                          limit_price, slippage_bps, client_order_id), PyNone)

place_order(base, quote, quantity, side, order_type, time_in_force, limit_price, slippage_bps, client_order_id) ==
  Checked("place_order",
          <<base, quote, quantity, side, order_type, time_in_force, limit_price,
            slippage_bps, client_order_id>>,
          place_order_request(base, quote, quantity, side, order_type, time_in_force,
                              limit_price, slippage_bps, client_order_id))

execute_quote_request(fx_quote_id, side) ==
  Post(url \o s_quotes_execute, PyNone,
       PyDict(<< <<k_fx_quote_id, fx_quote_id>>, <<k_side, side>> >>), auth)

execute_quote(fx_quote_id, side) ==
  Checked("execute_quote", <<fx_quote_id, side>>, execute_quote_request(fx_quote_id, side))

\* 'quotes/{}'.format(fx_quote_id)
get_quote_status_request(fx_quote_id) ==
  Get(url \o s_quotes_fmt \o PyToStr(fx_quote_id).v, PyNone)

get_quote_status(fx_quote_id) ==
  Checked("get_quote_status", <<fx_quote_id>>, get_quote_status_request(fx_quote_id))

get_executed_quotes_request(t_start, t_end, platform) ==
  Get(url \o s_quotes,
      PyDict(<< <<k_t_start, t_start>>, <<k_t_end, t_end>>, <<k_platform, platform>> >>))

get_executed_quotes(t_start, t_end, platform) ==
  Checked("get_executed_quotes", <<t_start, t_end, platform>>,
          get_executed_quotes_request(t_start, t_end, platform))

get_balances_request(platform) ==
  Get(url \o s_balances, PyDict(<< <<k_platform, platform>> >>))

get_balances(platform) ==
  Checked("get_balances", <<platform>>, get_balances_request(platform))

get_transfers_request(t_start, t_end, platform) ==
  Get(url \o s_transfers,
      PyDict(<< <<k_t_start, t_start>>, <<k_t_end, t_end>>, <<k_platform, platform>> >>))

get_transfers(t_start, t_end, platform) ==
  Checked("get_transfers", <<t_start, t_end, platform>>,
          get_transfers_request(t_start, t_end, platform))

get_trade_volume_request(t_start, t_end) ==
  Get(url \o s_get_trade_volume, PyDict(<< <<k_t_start, t_start>>, <<k_t_end, t_end>> >>))

get_trade_volume(t_start, t_end) ==
  Checked("get_trade_volume", <<t_start, t_end>>, get_trade_volume_request(t_start, t_end))

get_30_day_trailing_volume_request == Get(url \o s_get_30_day_trailing_volume, PyNone)

get_30_day_trailing_volume ==
  Unchecked("get_30_day_trailing_volume", <<>>, get_30_day_trailing_volume_request)

\* 'get_trade_limits/{}'.format(platform)
get_trade_limits_request(platform) ==
  Get(url \o s_get_trade_limits_fmt \o PyToStr(platform).v, PyNone)

get_trade_limits(platform) ==
  Checked("get_trade_limits", <<platform>>, get_trade_limits_request(platform))

\* A withdrawal sent as a GET.
submit_withdrawal_request_requestAsGet(token, amount, platform) ==
  Get(url \o s_withdraw,
      PyDict(<< <<k_token, token>>, <<k_amount, amount>>, <<k_platform, platform>> >>))

\* The withdrawal is a POST whose fields travel in the query string.
submit_withdrawal_request_request(token, amount, platform) ==
  Post(url \o s_withdraw,
       PyDict(<< <<k_token, token>>, <<k_amount, amount>>, <<k_platform, platform>> >>),
       PyNone, PyNone)

submit_withdrawal_request(token, amount, platform) ==
  Checked("submit_withdrawal_request", <<token, amount, platform>>,
          submit_withdrawal_request_request(token, amount, platform))

get_rate_limits_request == Get(url \o s_rate_limit, PyNone)

get_rate_limits == Checked("get_rate_limits", <<>>, get_rate_limits_request)

get_trade_sizes_request == Get(url \o s_trade_sizes, PyNone)

get_trade_sizes == Checked("get_trade_sizes", <<>>, get_trade_sizes_request)

get_total_balances_request == Get(url \o s_balances_total, PyNone)

get_total_balances == Checked("get_total_balances", <<>>, get_total_balances_request)

get_derivatives_request(trade_status, product_type, market_list) ==
  Get(url \o s_derivatives,
      PyDict(<< <<k_trade_status, trade_status>>, <<k_product_type, product_type>>,
                <<k_market_list, market_list>> >>))

get_derivatives(trade_status, product_type, market_list) ==
  Checked("get_derivatives", <<trade_status, product_type, market_list>>,
          get_derivatives_request(trade_status, product_type, market_list))

(* ------------------------------------------------------------ transport *)

\* session.get / session.post put the prepared request on the network once
\* every auth hook has run.
Send ==
  /\ pc = "prepare"
  /\ pending = <<>>
  /\ wire' = Append(wire, req)
  /\ pc' = "sent"
  /\ UNCHANGED <<constructed, url, auth, session, now, calls, call, req, pending,
                 signLog, resp, outcome>>

\* The server answers with some status and body.
Respond(status, text) ==
  /\ pc = "sent"
  /\ resp' = Append(resp, [status |-> status, text |-> text])
  /\ pc' = "responded"
  /\ UNCHANGED <<constructed, url, auth, session, now, calls, call, req, pending,
                 signLog, wire, outcome>>

\* A normaliser that takes every 2xx status for a success.
ProcessResponseAny2xx(response) ==
  IF response.status >= 200 /\ response.status < 300
    THEN LET j == JsonLoads(response.text) IN
         IF j.ok THEN Returned(j.val) ELSE Raised("JSONDecodeError")
    ELSE Returned(PyDict(<< <<k_status, PyInt(response.status)>>,
                            <<k_text, PyStr(response.text)>> >>))

\* FalconxClient._process_response: what it returns, or raises.
ProcessResponse(response) ==
  IF response.status = Http200
    THEN LET j == JsonLoads(response.text) IN
         IF j.ok THEN Returned(j.val) ELSE Raised("JSONDecodeError")
    ELSE Returned(PyDict(<< <<k_status, PyInt(response.status)>>,
                            <<k_text, PyStr(response.text)>> >>))

\* A client that sends the request again after a failure.
AfterResponseRetry(response) == IF response.status # Http200 THEN "prepare" ELSE "done"

\* Where the operation stands once _process_response has run: it is over.
AfterResponse(response) == "done"

\* return self._process_response(response)
process_response ==
  /\ pc = "responded"
  /\ outcome' = Append(outcome, ProcessResponse(resp[Len(resp)]))
  /\ pc' = AfterResponse(resp[Len(resp)])
  /\ UNCHANGED <<constructed, url, auth, session, now, calls, call, req, pending,
                 signLog, wire, resp>>

\* The operation has returned or raised: its frame is gone, and the caller may
\* call again.
Finish ==
  /\ pc = "done"
  /\ pc' = "idle"
  /\ call' = NoCall
  /\ req' = NoReq
  /\ pending' = <<>>
  /\ signLog' = <<>>
  /\ wire' = <<>>
  /\ resp' = <<>>
  /\ outcome' = <<>>
  /\ UNCHANGED <<constructed, url, auth, session, now, calls>>

\* Time passes.
Tick ==
  /\ now < MaxClock
  /\ now' = now + 1
  /\ UNCHANGED <<constructed, url, auth, session, calls, pc, call, req, pending,
                 signLog, wire, resp, outcome>>

Optional(S) == {PyNone} \cup S

Next ==
  \/ \E key \in Keys, secret \in Secrets, passphrase \in Passphrases, u \in Urls :
       Construct(key, secret, passphrase, u)
  \/ get_trading_pairs
  \/ \E base \in Tokens, quote \in Tokens, quantity \in Quantities, side \in Sides :
       get_quote(base, quote, quantity, side, PyNone)
  \/ \E quantity \in Quantities, order_type \in OrderTypes,
        limit_price \in Optional(Quantities) :
       place_order(PyStr(<<"B","T","C">>), PyStr(<<"U","S","D">>), quantity,
                   PyStr(<<"b","u","y">>), order_type, PyNone, limit_price, PyNone, PyNone)
  \/ \E fx_quote_id \in QuoteIds, side \in Sides : execute_quote(fx_quote_id, side)
  \/ \E fx_quote_id \in QuoteIds : get_quote_status(fx_quote_id)
  \/ \E t_start \in Times, t_end \in Times, platform \in Platforms :
       get_executed_quotes(t_start, t_end, platform)
  \/ \E platform \in Platforms : get_balances(platform)
  \/ \E t_start \in Times, platform \in Platforms :
       get_transfers(t_start, PyNone, platform)
  \/ \E t_start \in Times, t_end \in Times : get_trade_volume(t_start, t_end)
  \/ get_30_day_trailing_volume
  \/ \E platform \in Platforms \ {PyNone} : get_trade_limits(platform)
  \/ \E token \in Tokens, amount \in Quantities, platform \in Platforms :
       submit_withdrawal_request(token, amount, platform)
  \/ get_rate_limits
  \/ get_trade_sizes
  \/ get_total_balances
  \/ \E trade_status \in Platforms : get_derivatives(trade_status, PyNone, PyNone)
  \/ FXRfqAuth_call
  \/ Send
  \/ \E status \in Statuses, text \in Texts : Respond(status, text)
  \/ process_response
  \/ Finish
  \/ Tick

Spec == Init /\ [][Next]_vars

(* --------------------------------------------------------------- claims *)

\* The requests of the call that every auth hook has run on: the prepared
\* request once no hook is pending, and the requests on the network.
SignedRequests ==
  {wire[i] : i \in 1..Len(wire)}
    \cup (IF pc = "prepare" /\ pending = <<>> /\ signLog # <<>> THEN {req} ELSE {})

BodyText(r) == IF r.body.t = "None" THEN <<>> ELSE Decode(r.body.v)

IsSuffix(p, s) == Len(p) <= Len(s) /\ SubSeq(s, Len(s) - Len(p) + 1, Len(s)) = p

\* The reference computation: base64(HMAC-SHA256(base64-decode(secret),
\* timestamp + method + path_url + body)).
RefSignature(secret, timestamp, method, path_url, body) ==
  PyBytes(B64EncodeBytes(HmacDigest(B64Decode(secret).bytes,
                                    Encode(timestamp \o method \o path_url \o body))))

\* C1: on every signed request the FX-ACCESS-SIGN header equals the reference
\* signature over the client's secret, the request's timestamp header, its
\* method, its path_url (which ends with '?' and the query when there is one)
\* and its body ('' when it has none), concatenated with no delimiter.
C1_SignatureVerifies ==
  \A r \in SignedRequests :
    /\ r.headers["FX-ACCESS-SIGN"] =
         RefSignature(auth.secret_key, r.headers["FX-ACCESS-TIMESTAMP"].v,
                      r.method, r.path_url, BodyText(r))
    /\ r.query # <<>> => IsSuffix(<<"?">> \o r.query, r.path_url)

\* A signed POST without body whose path carries a query string is on the network.
C1_Witness ==
  /\ wire # <<>>
  /\ wire[1].body.t = "None"
  /\ wire[1].query # <<>>
  /\ wire[1].method = s_POST
  /\ "FX-ACCESS-SIGN" \in DOMAIN wire[1].headers

Missing(x) == x.t = "None" \/ (x.t = "str" /\ x.v = <<>>)

Populated(a) ==
  /\ a.t = "FXRfqAuth"
  /\ ~Missing(a.api_key)
  /\ ~Missing(a.secret_key)
  /\ ~Missing(a.passphrase)

\* C2: a construction with key, secret or passphrase None or empty raises and
\* leaves no session and no request on the network; any other construction
\* yields a client, and every constructed client holds all three credentials.
C2_ConstructionNeedsAllCredentials ==
  /\ [](constructed = "ok" => Populated(auth) /\ session.t = "Session" /\ session.auth = auth)
  /\ [](constructed = "raised" => session = PyNone /\ wire = <<>> /\ calls = 0)
  /\ [][\A key \in Keys, secret \in Secrets, passphrase \in Passphrases, u \in Urls :
          Construct(key, secret, passphrase, u) =>
            IF Missing(key) \/ Missing(secret) \/ Missing(passphrase)
              THEN constructed' = "raised" /\ session' = PyNone /\ wire' = <<>>
              ELSE constructed' = "ok"]_vars

\* A construction has raised.
C2_Witness == constructed = "raised" /\ session = PyNone

\* The record {'status': status, 'text': text}
ErrorRecord(status, text) ==
  PyDict(<< <<k_status, PyInt(status)>>, <<k_text, PyStr(text)>> >>)

\* C3: whatever an operation returns is the normalised response: the parsed
\* JSON body when the status is 200, the record {status, text} for any other
\* status, other 2xx included; and a response with another status, or with
\* status 200 and a JSON body, is always returned that way.
C3_NormalisedResult ==
  /\ \A i \in 1..Len(outcome) :
       outcome[i].kind = "return" =>
         /\ resp # <<>>
         /\ LET r == resp[Len(resp)] IN
            IF r.status = 200
              THEN JsonLoads(r.text).ok /\ outcome[i].value = JsonLoads(r.text).val
              ELSE outcome[i].value = ErrorRecord(r.status, r.text)
  /\ (pc = "done" /\ resp # <<>>
        /\ (resp[Len(resp)].status # 200 \/ JsonLoads(resp[Len(resp)].text).ok))
       => outcome # <<>> /\ outcome[Len(outcome)].kind = "return"

\* A 201 with a JSON body has been returned as {status: 201, text: body}.
C3_Witness ==
  /\ pc = "done"
  /\ resp # <<>>
  /\ resp[1].status = 201
  /\ JsonLoads(resp[1].text).ok
  /\ outcome = <<Returned(ErrorRecord(201, resp[1].text))>>

\* C4: every operation whose request reaches the network has checked
\* self.auth first, and an operation on a client without auth sends nothing.
C4_EveryOperationChecksAuth ==
  /\ wire # <<>> => call.checked
  /\ (call.name # "" /\ ~Truthy(auth)) => wire = <<>> /\ req = NoReq

\* C5: a signed request carries the signature, the timestamp the signing
\* message starts with, the client's key and passphrase, and, when it has a
\* body, the Content-Type application/json.
C5_SignedHeaders ==
  \A r \in SignedRequests :
    LET h == r.headers
        m == signLog[Len(signLog)].message IN
    /\ {"FX-ACCESS-SIGN", "FX-ACCESS-TIMESTAMP", "FX-ACCESS-KEY", "FX-ACCESS-PASSPHRASE"}
         \subseteq DOMAIN h
    /\ h["FX-ACCESS-SIGN"].t = "bytes"
    /\ h["FX-ACCESS-SIGN"] = PyBytes(B64EncodeBytes(HmacDigest(B64Decode(auth.secret_key).bytes, Encode(m))))
    /\ h["FX-ACCESS-TIMESTAMP"].t = "str"
    /\ m = h["FX-ACCESS-TIMESTAMP"].v \o r.method \o r.path_url \o BodyText(r)
    /\ h["FX-ACCESS-KEY"] = auth.api_key
    /\ h["FX-ACCESS-PASSPHRASE"] = auth.passphrase
    /\ r.body.t # "None" =>
         "Content-Type" \in DOMAIN h /\ h["Content-Type"] = PyStr(s_application_json)

\* A signed request with a body is on the network.
C5_Witness ==
  /\ wire # <<>>
  /\ wire[1].body.t = "bytes"
  /\ "FX-ACCESS-PASSPHRASE" \in DOMAIN wire[1].headers

\* C6: an operation that has received a response, whatever its status and
\* body, returns; it does not raise.
C6_NoRaiseOnResponse ==
  resp # <<>> => \A i \in 1..Len(outcome) : outcome[i].kind = "return"

\* The endpoint table: the method and the relative path of each operation.
Endpoint(name, args) ==
  CASE name = "get_trading_pairs" -> <<s_GET, s_pairs>>
    [] name = "get_quote" -> <<s_POST, s_quotes>>
    [] name = "place_order" -> <<s_POST, s_order>>
    [] name = "execute_quote" -> <<s_POST, s_quotes_execute>>
    [] name = "get_quote_status" -> <<s_GET, s_quotes \o <<"/">> \o args[1].v>>
    [] name = "get_executed_quotes" -> <<s_GET, s_quotes>>
    [] name = "get_balances" -> <<s_GET, s_balances>>
    [] name = "get_total_balances" -> <<s_GET, s_balances \o <<"/">> \o <<"t","o","t","a","l">> >>
    [] name = "get_transfers" -> <<s_GET, s_transfers>>
    [] name = "get_trade_volume" -> <<s_GET, s_get_trade_volume>>
    [] name = "get_30_day_trailing_volume" -> <<s_GET, s_get_30_day_trailing_volume>>
    [] name = "get_trade_limits" -> <<s_GET, s_get_trade_limits_fmt \o args[1].v>>
    [] name = "submit_withdrawal_request" -> <<s_POST, s_withdraw>>
    [] name = "get_rate_limits" -> <<s_GET, s_rate_limit>>
    [] name = "get_trade_sizes" -> <<s_GET, s_trade_sizes>>
    [] name = "get_derivatives" -> <<s_GET, s_derivatives>>
    [] OTHER -> <<<<>>, <<>>>>

\* The requests of the call in progress: the prepared one and those sent.
CallRequests ==
  {wire[i] : i \in 1..Len(wire)} \cup (IF req = NoReq THEN {} ELSE {req})

\* C7: every request of an operation has the method of the endpoint table
\* and, as its URL, the client's base URL followed by the table's path.
C7_EndpointTable ==
  \A r \in CallRequests :
    /\ r.method = Endpoint(call.name, call.args)[1]
    /\ r.url = url \o Endpoint(call.name, call.args)[2]

\* A withdrawal request is on the network.
C7_Witness ==
  /\ wire # <<>>
  /\ call.name = "submit_withdrawal_request"
  /\ wire[1].method = s_POST
  /\ wire[1].url = url \o s_withdraw

\* d[key] of a dict
DictGet(d, key) ==
  LET hits == {i \in 1..Len(d.v) : d.v[i][1] = key} IN
  IF hits = {} THEN [t |-> "KeyError"] ELSE d.v[CHOOSE i \in hits : \A j \in hits : j <= i][2]

\* C8: the request of get_quote(base, quote, quantity, side) is a POST to
\* 'quotes' whose body is a JSON object with token_pair = {base_token: base,
\* quote_token: quote}, quantity = {token: base, value: the decimal string of
\* quantity} and side = side.
C8_GetQuoteBody ==
  \A r \in CallRequests :
    call.name = "get_quote" =>
      /\ r.method = s_POST
      /\ r.url = url \o s_quotes
      /\ r.body.t = "bytes"
      /\ LET parsed == JsonLoads(Decode(r.body.v)) IN
         /\ parsed.ok
         /\ parsed.val.t = "dict"
         /\ DictGet(parsed.val, k_token_pair) =
              PyDict(<< <<k_base_token, call.args[1]>>, <<k_quote_token, call.args[2]>> >>)
         /\ DictGet(parsed.val, k_quantity) =
              PyDict(<< <<k_token, call.args[1]>>, <<k_value, PyStr(IntStr(call.args[3].v))>> >>)
         /\ DictGet(parsed.val, k_side) = call.args[4]

\* get_quote('BTC', 'USD', 10, 'buy') has sent quantity {token: BTC, value: "10"}.
C8_Witness ==
  /\ wire # <<>>
  /\ call.name = "get_quote"
  /\ call.args[1] = PyStr(<<"B","T","C">>)
  /\ call.args[2] = PyStr(<<"U","S","D">>)
  /\ call.args[3] = PyInt(10)
  /\ call.args[4] = PyStr(<<"b","u","y">>)
  /\ DictGet(JsonLoads(Decode(wire[1].body.v)).val, k_quantity) =
       PyDict(<< <<k_token, PyStr(<<"B","T","C">>)>>, <<k_value, PyStr(<<"1","0">>)>> >>)

\* C9: the signer runs at most once in an operation; a request on the network
\* was signed exactly once, before it was sent, over the path and the body it
\* was sent with.
C9_SignedOnceBeforeSend ==
  /\ Len(signLog) <= 1
  /\ \A i \in 1..Len(wire) :
       /\ Len(signLog) = 1
       /\ signLog[1].sent = 0
       /\ signLog[1].path_url = wire[i].path_url
       /\ signLog[1].body = wire[i].body
       /\ signLog[1].message =
            wire[i].headers["FX-ACCESS-TIMESTAMP"].v \o wire[i].method
              \o wire[i].path_url \o BodyText(wire[i])

\* The request of execute_quote is on the network, signed once.
C9_Witness ==
  /\ wire # <<>>
  /\ call.name = "execute_quote"
  /\ Len(signLog) = 1

\* C10: an operation puts at most one request on the network and receives at
\* most one response; it delivers nothing while it runs and exactly one
\* outcome once it is over, which for a response of another status than 200
\* is the returned record.
C10_OneRequestOneResult ==
  /\ Len(wire) <= 1
  /\ Len(resp) <= 1
  /\ Len(outcome) <= 1
  /\ pc = "done" <=> Len(outcome) = 1
  /\ (pc = "done" /\ resp # <<>> /\ resp[1].status # 200) =>
       /\ Len(wire) = 1
       /\ outcome = <<Returned(ErrorRecord(resp[1].status, resp[1].text))>>

\* An operation answered with 404 is over: one request sent, one result.
C10_Witness ==
  /\ pc = "done"
  /\ Len(wire) = 1
  /\ resp # <<>>
  /\ resp[1].status = 404
  /\ Len(outcome) = 1
  /\ outcome[1].kind = "return"

\* The number of positions of s that hold a character of the set cs.
Count(s, cs) == Cardinality({i \in 1..Len(s) : s[i] \in cs})

\* A secret that is not base64, for the secrets whose '=' all stand at the
\* end: the data characters do not fill their last group of four, and the
\* padding does not fill it either.
Undecodable(secret) ==
  LET data == Count(secret.v, B64Chars)
      pads == Count(secret.v, {"="}) IN
  \/ data % 4 = 1
  \/ data % 4 = 2 /\ pads < 2
  \/ data % 4 = 3 /\ pads < 1

AccessHeaders ==
  {"FX-ACCESS-SIGN", "FX-ACCESS-TIMESTAMP", "FX-ACCESS-KEY", "FX-ACCESS-PASSPHRASE"}

\* C11: a client whose secret is not base64 is constructed all the same; each
\* of its operations fails in the signer with binascii.Error, at the signer's
\* first run, with no header attached to the request, no request on the
\* network and no response normalised.
C11_BadSecretFailsInSigner ==
  (auth.t = "FXRfqAuth" /\ Undecodable(auth.secret_key)) =>
    /\ constructed = "ok"
    /\ wire = <<>>
    /\ resp = <<>>
    /\ pc \notin {"sent", "responded"}
    /\ AccessHeaders \cap DOMAIN req.headers = {}
    /\ \A i \in 1..Len(outcome) : outcome[i] = Raised("binascii.Error")
    /\ signLog # <<>> => pc = "done" /\ Len(signLog) = 1 /\ Len(outcome) = 1
    /\ pc = "done" => Len(signLog) = 1

\* An operation with a body, on a client whose secret is 'YQ=', has raised
\* binascii.Error out of the signer; nothing was sent.
C11_Witness ==
  /\ constructed = "ok"
  /\ auth.t = "FXRfqAuth"
  /\ auth.secret_key = PyStr(<<"Y","Q","=">>)
  /\ pc = "done"
  /\ req.body.t = "bytes"
  /\ Len(signLog) = 1
  /\ outcome = <<Raised("binascii.Error")>>
  /\ wire = <<>>

====
